---- MODULE Spec2Model ----
(***************************************************************************)
(* AceUp analytics engine (src/Analytics/analytics_server.py): the         *)
(* priority score, the urgency classifier, the recommendation generator    *)
(* and the selection engine analyze_highest_weight_event.                  *)
(*                                                                         *)
(* Numbers are fixed point.  A weight is an integer number of 1/10000      *)
(* (0.30 is 3000), a priority score an integer number of 1/100 (108.00 is  *)
(* 10800), an average weight an integer number of 1/1000 (0.143 is 143).   *)
(* An instant is an integer number of ticks, TicksPerDay ticks to a day.   *)
(***************************************************************************)
EXTENDS Integers, Sequences, FiniteSets, TLC

VARIABLES
    store,      \* the Event Store's event list for the user
    snapshot,   \* student_data["events"] as the last analysis call fetched it
    fetched,    \* the same list as that call left it
    result,     \* what the last analysis call returned
    fn,         \* the engine function of the last direct call
    arg_event,  \* its event argument
    arg_now,    \* its current_time argument
    arg_total,  \* its total_pending argument
    arg_days,   \* its days_until_due argument
    ret,        \* its return value
    calls,      \* the analysis calls in progress side by side: each one's locals
    heap        \* the event lists those calls were handed by get_student_data

vars == <<store, snapshot, fetched, result, fn, arg_event, arg_now, arg_total, arg_days, ret,
          calls, heap>>
engineVars == <<store, snapshot, fetched, result>>
callVars == <<fn, arg_event, arg_now, arg_total, arg_days, ret>>
concVars == <<calls, heap>>

----------------------------------------------------------------------------
(* Bounds of the model *)

TicksPerDay == 2        \* clock resolution
MaxStore == 3           \* events in the store, Spec
MaxLoad == 9            \* events in the store, SpecLoad
MaxTotal == 10          \* largest total_pending passed to generate_recommendations
MinDays == 3            \* days_until_due ranges over -MinDays .. MaxDays
MaxDays == 16
MaxConc == 2            \* analysis calls running side by side, SpecConc
MaxNow == 30            \* get_student_data reads the clock at 0 .. MaxNow, SpecBuiltin
MaxDelay == 2           \* ticks from the store's clock read to the engine's, SpecBuiltin

(* Program constants *)

UrgencyHorizon == 14
UrgencyStep == 5
StatusPenalty == 50
CriticalDays == 1
HighDays == 3
ModerateDays == 7
HighImpactWeight == 3000
ModerateImpactWeight == 1500
UrgentDays == 1
SoonDays == 3
PlanAheadDays == 7
HeavyWorkload == 8
HeavyLoad == 8
ModerateLoad == 5

None == [none |-> TRUE]

----------------------------------------------------------------------------
(* Arithmetic *)

Max(a, b) == IF a >= b THEN a ELSE b

\* Python round(): the nearest multiple of the unit, an exact tie going to the
\* even one.  num / den rounded to an integer, den > 0.
RoundHalfEven(num, den) ==
    LET q == num \div den
        r == num % den
    IN  IF 2 * r < den THEN q
        ELSE IF 2 * r > den THEN q + 1
        ELSE IF q % 2 = 0 THEN q ELSE q + 1

\* round() of a binary float: the nearest multiple of the unit; when the decimal
\* value is an exact tie the float lies a little to one side or the other, and
\* either neighbour can be the result.
Rounded(num, den) ==
    IF 2 * (num % den) = den THEN {num \div den, num \div den + 1}
    ELSE {RoundHalfEven(num, den)}

\* An event's due_date is an ISO-8601 string: the instant it names and its
\* form, "naive" (no offset), "Z" or "offset" (a trailing Z or UTC offset), or
\* "invalid" (not a date at all).
Iso(at, form) == [at |-> at, form |-> form]

DaysUntilDueTruncated(due_date, current_time) ==
    LET ticks == due_date.at - current_time
    IN  IF ticks >= 0 THEN ticks \div TicksPerDay ELSE 0 - ((0 - ticks) \div TicksPerDay)

\* (fromisoformat(due_date) - current_time).days: timedelta normalises to days
\* and seconds >= 0, so .days is the floor of the difference in days.
DaysUntilDue(due_date, current_time) == (due_date.at - current_time) \div TicksPerDay

----------------------------------------------------------------------------
(* calculate_priority_score *)

TypeFactorLowDefault(type) ==
    CASE type = "exam" -> 12
      [] type = "project" -> 11
      [] type = "assignment" -> 10
      [] type = "quiz" -> 9
      [] type = "homework" -> 8
      [] OTHER -> 8

\* type_multipliers.get(event["type"], 1.0), in tenths
TypeFactor(type) ==
    CASE type = "exam" -> 12
      [] type = "project" -> 11
      [] type = "assignment" -> 10
      [] type = "quiz" -> 9
      [] type = "homework" -> 8
      [] OTHER -> 10

UrgencyFactorCapped(days_until_due) ==
    Max(0, UrgencyHorizon - Max(0, days_until_due)) * UrgencyStep * 1000

UrgencyFactorOfDays(days_until_due) == Max(0, days_until_due) * UrgencyStep * 1000

\* urgency_factor = max(0, 14 - days_until_due) * 5, in 1/1000
UrgencyFactor(days_until_due) ==
    Max(0, UrgencyHorizon - days_until_due) * UrgencyStep * 1000

StatusPenaltyNone(status) == 0

\* status_penalty = 0 if event["status"] == "pending" else -50
StatusPenaltyOf(status) == IF status = "pending" THEN 0 ELSE -StatusPenalty

UnroundedScoreByLabel(event, current_time) ==
    LET days_until_due == DaysUntilDue(event.due_date, current_time)
        weight_factor == event.weight * 10
        urgency_factor == UrgencyFactor(days_until_due)
        type_factor == TypeFactor(event.type)
        status_penalty == StatusPenaltyOf(event.status)
        label_bonus == IF event.priority \in {"high", "critical"} THEN 10 ELSE 0
    IN  (weight_factor + urgency_factor) * type_factor
            + (status_penalty + label_bonus) * 10000

\* priority_score before it is rounded, in 1/10000; weight_factor and
\* urgency_factor in 1/1000
UnroundedScore(event, current_time) ==
    LET days_until_due == DaysUntilDue(event.due_date, current_time)
        weight_factor == event.weight * 10
        urgency_factor == UrgencyFactor(days_until_due)
        type_factor == TypeFactor(event.type)
        status_penalty == StatusPenaltyOf(event.status)
    IN  (weight_factor + urgency_factor) * type_factor + status_penalty * 10000

\* the values round(priority_score, 2) can give, in 1/100: one value, or the
\* two neighbours of a score that is an exact tie
PriorityScores(event, current_time) == Rounded(UnroundedScore(event, current_time), 100)

\* in 1/100; the one value of PriorityScores for an event whose score is no tie
calculate_priority_score(event, current_time) ==
    RoundHalfEven(UnroundedScore(event, current_time), 100)

\* The exception calculate_priority_score raises for the event when
\* current_time has no offset, "none" when it returns: the first of
\* event["due_date"] and fromisoformat (line 180), the subtraction of a time
\* without offset from one with an offset (line 181), event["weight"],
\* event["type"] and event["status"].
ScoreError(event) ==
    IF "due_date" \notin DOMAIN event THEN "KeyError"
    ELSE IF event.due_date.form = "invalid" THEN "ValueError"
    ELSE IF event.due_date.form # "naive" THEN "TypeError"
    ELSE IF "weight" \notin DOMAIN event THEN "KeyError"
    ELSE IF "type" \notin DOMAIN event THEN "KeyError"
    ELSE IF "status" \notin DOMAIN event THEN "KeyError"
    ELSE "none"

----------------------------------------------------------------------------
(* get_urgency_level *)

get_urgency_level_strict(days_until_due) ==
    IF days_until_due < CriticalDays THEN "critical"
    ELSE IF days_until_due < HighDays THEN "high"
    ELSE IF days_until_due < ModerateDays THEN "moderate"
    ELSE "low"

get_urgency_level(days_until_due) ==
    IF days_until_due <= CriticalDays THEN "critical"
    ELSE IF days_until_due <= HighDays THEN "high"
    ELSE IF days_until_due <= ModerateDays THEN "moderate"
    ELSE "low"

----------------------------------------------------------------------------
(* generate_recommendations *)

\* A recommendation string: its template and what .format() filled in (the
\* event type, or the integer percentage; "" and -1 when the template has no
\* such placeholder).
Str(template, type, pct) == [template |-> template, type |-> type, pct |-> pct]

TimeBased(event, days_until_due) ==
    IF days_until_due <= UrgentDays THEN
        << Str("URGENT: This {} is due within 24 hours!", event.type, -1),
           Str("Focus solely on this task and complete it as soon as possible", "", -1) >>
    ELSE IF days_until_due <= SoonDays THEN
        << Str("Priority: This {} is due very soon", event.type, -1),
           Str("Allocate significant time today to work on this", "", -1) >>
    ELSE IF days_until_due <= PlanAheadDays THEN
        << Str("Plan ahead: Start working on this {} soon", event.type, -1) >>
    ELSE << >>

\* weight_percentage = int(event["weight"] * 100)
WeightBased(event) ==
    LET weight_percentage == event.weight \div 100
    IN  IF event.weight >= HighImpactWeight THEN
            << Str("High Impact: This task represents {}% of your grade", "", weight_percentage),
               Str("Consider dedicating extra study time given its importance", "", -1) >>
        ELSE IF event.weight >= ModerateImpactWeight THEN
            << Str("Moderate Impact: Worth {}% of your final grade", "", weight_percentage) >>
        ELSE << >>

WorkloadAbove(total_pending) ==
    IF total_pending > HeavyWorkload THEN
        << Str("Heavy workload detected - prioritize by due date and weight", "", -1),
           Str("Break down large tasks into smaller, manageable chunks", "", -1) >>
    ELSE << >>

Workload(total_pending) ==
    IF total_pending >= HeavyWorkload THEN
        << Str("Heavy workload detected - prioritize by due date and weight", "", -1),
           Str("Break down large tasks into smaller, manageable chunks", "", -1) >>
    ELSE << >>

TypeSpecific(event) ==
    IF event.type = "exam" THEN
        << Str("Create a study schedule leading up to the exam", "", -1),
           Str("Review past materials and practice problems", "", -1) >>
    ELSE IF event.type = "project" THEN
        << Str("Break this project into phases with mini-deadlines", "", -1),
           Str("Start with research and planning phases", "", -1) >>
    ELSE IF event.type = "assignment" THEN
        << Str("Begin with an outline or initial draft", "", -1) >>
    ELSE << >>

generate_recommendations_weight_first(event, total_pending, days_until_due) ==
    WeightBased(event) \o TimeBased(event, days_until_due)
        \o Workload(total_pending) \o TypeSpecific(event)

generate_recommendations(event, total_pending, days_until_due) ==
    TimeBased(event, days_until_due) \o WeightBased(event)
        \o Workload(total_pending) \o TypeSpecific(event)

----------------------------------------------------------------------------
(* analyze_highest_weight_event *)

IsPendingNotCompleted(e) == e.status # "completed"

IsPendingWellFormed(e) == e.status = "pending" /\ ScoreError(e) = "none"

\* the filter of the list comprehension: e["status"] == "pending"
IsPending(e) == e.status = "pending"

PendingEvents(events) == SelectSeq(events, IsPending)

\* the exception the filter raises: e["status"] of an event without the key
FilterError(events) ==
    IF \E i \in 1..Len(events) : "status" \notin DOMAIN events[i]
    THEN "KeyError" ELSE "none"

\* the place of the pending event at which the scoring loop raises, one past
\* the end of the list if it completes
LoopStop(events) ==
    LET failing == { i \in 1..Len(events) :
                        IsPending(events[i]) /\ ScoreError(events[i]) # "none" }
    IN  IF failing = {} THEN Len(events) + 1
        ELSE CHOOSE i \in failing : \A j \in failing : i <= j

\* the exception that ends the call before it returns, "none" if it returns
CallError(events) ==
    LET stop == LoopStop(events)
    IN  IF FilterError(events) # "none" THEN FilterError(events)
        ELSE IF stop <= Len(events) THEN ScoreError(events[stop])
        ELSE "none"

\* what the caller gets when the call raises: the exception, and no result
Raised(error) == [raised |-> error]

ScoreEventAccumulating(event, current_time) ==
    [ k \in DOMAIN event \cup {"priority_score", "days_until_due"} |->
        IF k = "priority_score"
        THEN (IF "priority_score" \in DOMAIN event THEN event.priority_score ELSE 0)
                 + calculate_priority_score(event, current_time)
        ELSE IF k = "days_until_due" THEN DaysUntilDue(event.due_date, current_time)
        ELSE event[k] ]

ScoreEventRereading(event, current_time) ==
    [ k \in DOMAIN event \cup {"priority_score", "days_until_due"} |->
        IF k = "priority_score" THEN calculate_priority_score(event, current_time)
        ELSE IF k = "days_until_due" THEN DaysUntilDue(event.due_date, current_time + 1)
        ELSE event[k] ]

\* One pass of the scoring loop: the two keys are assigned on the event record
\* itself, which keeps its other keys; a key already there is overwritten.
ScoreEvent(event, current_time) ==
    [ k \in DOMAIN event \cup {"priority_score", "days_until_due"} |->
        IF k = "priority_score" THEN calculate_priority_score(event, current_time)
        ELSE IF k = "days_until_due" THEN DaysUntilDue(event.due_date, current_time)
        ELSE event[k] ]

\* pending_events after the loop
ScoredPending(events, current_time) ==
    LET pending_events == PendingEvents(events)
    IN  [i \in 1..Len(pending_events) |-> ScoreEvent(pending_events[i], current_time)]

\* student_data["events"] after the loop: pending_events holds the very records
\* of this list, so the loop's assignments show in it.
EventsAfterCall(events, current_time) ==
    IF FilterError(events) # "none" THEN events
    ELSE LET stop == LoopStop(events)
         IN  [i \in 1..Len(events) |->
                IF IsPending(events[i]) /\ i < stop
                THEN ScoreEvent(events[i], current_time) ELSE events[i]]

RECURSIVE MaxLastFrom(_, _)
MaxLastFrom(best, rest) ==
    IF rest = << >> THEN best
    ELSE MaxLastFrom(IF Head(rest).priority_score >= best.priority_score
                     THEN Head(rest) ELSE best, Tail(rest))

MaxByScoreLast(pending_events) == MaxLastFrom(Head(pending_events), Tail(pending_events))

RECURSIVE MaxWeightFrom(_, _)
MaxWeightFrom(best, rest) ==
    IF rest = << >> THEN best
    ELSE MaxWeightFrom(IF Head(rest).weight > best.weight THEN Head(rest) ELSE best,
                       Tail(rest))

MaxByWeight(pending_events) == MaxWeightFrom(Head(pending_events), Tail(pending_events))

RECURSIVE MaxFrom(_, _)
MaxFrom(best, rest) ==
    IF rest = << >> THEN best
    ELSE MaxFrom(IF Head(rest).priority_score > best.priority_score
                 THEN Head(rest) ELSE best, Tail(rest))

\* max(pending_events, key=lambda e: e["priority_score"]): an item replaces the
\* best so far only when its key is strictly larger
MaxByScore(pending_events) == MaxFrom(Head(pending_events), Tail(pending_events))

RECURSIVE TotalWeight(_)
\* sum(e["weight"] for e in pending_events)
TotalWeight(pending_events) ==
    IF pending_events = << >> THEN 0
    ELSE Head(pending_events).weight + TotalWeight(Tail(pending_events))

AverageWeightTruncated(pending_events) ==
    TotalWeight(pending_events) \div (Len(pending_events) * 10)

\* round(total_weight / len(pending_events), 3), in 1/1000
AverageWeight(pending_events) ==
    RoundHalfEven(TotalWeight(pending_events), Len(pending_events) * 10)

CourseLoadAbove(n) ==
    IF n > HeavyLoad THEN "Heavy"
    ELSE IF n > ModerateLoad THEN "Moderate"
    ELSE "Light"

CourseLoad(n) ==
    IF n >= HeavyLoad THEN "Heavy"
    ELSE IF n >= ModerateLoad THEN "Moderate"
    ELSE "Light"

NoPendingRecommendations ==
    << Str("Consider planning ahead for upcoming assignments", "", -1),
       Str("Review your course syllabi for future deadlines", "", -1),
       Str("Use this free time to get ahead on reading or projects", "", -1) >>

NoPendingAnalysis ==
    [ total_pending_events |-> 0,
      average_weight |-> 0,
      days_to_due |-> 0,
      urgency_level |-> "low",
      impact_score |-> 0,
      course_load |-> "Light" ]

EmptyResultAsFailure(current_time, user_id) ==
    [ success |-> FALSE,
      message |-> "No pending academic events found. Great job staying on top of your work!",
      data |-> [ event |-> None,
                 analysis |-> NoPendingAnalysis,
                 recommendations |-> NoPendingRecommendations ],
      timestamp |-> current_time,
      user_id |-> user_id ]

EmptyResult(current_time, user_id) ==
    [ success |-> TRUE,
      message |-> "No pending academic events found. Great job staying on top of your work!",
      data |-> [ event |-> None,
                 analysis |-> NoPendingAnalysis,
                 recommendations |-> NoPendingRecommendations ],
      timestamp |-> current_time,
      user_id |-> user_id ]

AnalysisOfFirstPending(highest_priority_event, pending_events) ==
    [ total_pending_events |-> Len(pending_events),
      average_weight |-> AverageWeight(pending_events),
      days_to_due |-> Head(pending_events).days_until_due,
      urgency_level |-> get_urgency_level(Head(pending_events).days_until_due),
      impact_score |-> highest_priority_event.priority_score,
      course_load |-> CourseLoad(Len(pending_events)) ]

\* the "analysis" object of the result
Analysis(highest_priority_event, pending_events) ==
    [ total_pending_events |-> Len(pending_events),
      average_weight |-> AverageWeight(pending_events),
      days_to_due |-> highest_priority_event.days_until_due,
      urgency_level |-> get_urgency_level(highest_priority_event.days_until_due),
      impact_score |-> highest_priority_event.priority_score,
      course_load |-> CourseLoad(Len(pending_events)) ]

\* What the call returns once the loop has scored pending_events: the event
\* with the highest score, the analysis and the recommendations.
SuccessResult(pending_events, current_time, user_id) ==
    LET highest_priority_event == MaxByScore(pending_events)
        recommendations ==
            generate_recommendations(highest_priority_event, Len(pending_events),
                                     highest_priority_event.days_until_due)
    IN  [ success |-> TRUE,
          message |-> "Successfully identified highest priority pending academic event",
          data |-> [ event |-> highest_priority_event,
                     analysis |-> Analysis(highest_priority_event, pending_events),
                     recommendations |-> recommendations ],
          timestamp |-> current_time,
          user_id |-> user_id ]

\* The value analyze_highest_weight_event returns for the fetched events and the
\* instant it read.
analyze_highest_weight_event(events, current_time, user_id) ==
    LET error == CallError(events) IN
    IF error # "none" THEN Raised(error)
    ELSE
    LET pending_events == ScoredPending(events, current_time)
    IN  IF pending_events = << >> THEN EmptyResult(current_time, user_id)
        ELSE SuccessResult(pending_events, current_time, user_id)

----------------------------------------------------------------------------
(* Inputs *)

\* "lab" stands for a type the multiplier table does not list
EventTypes == {"exam", "project", "assignment", "quiz", "homework", "lab"}
Statuses == {"pending", "in_progress", "completed", "overdue"}
\* No weight has a 5 in its fourth decimal, so no score is an exact decimal tie.
Weights == {0, 500, 800, 1499, 1500, 2500, 2999, 3000, 3500}
DueTicks == (0 - MinDays * TicksPerDay) .. (MaxDays * TicksPerDay)
DayCounts == (0 - MinDays) .. MaxDays
Totals == 0 .. MaxTotal
\* the instants an engine call reads: the instant the dues are counted from, and
\* one tick later
Nows == {0, 1}
UserIds == {"student123"}

\* an event record with a due_date without offset; the keys the engine never
\* reads carry the same values in every event of the catalogs
Event(id, type, due_date, weight, status) ==
    [ id |-> id, type |-> type, due_date |-> Iso(due_date, "naive"), weight |-> weight,
      status |-> status, priority |-> "medium", estimated_hours |-> 4,
      title |-> "Midterm", course_id |-> "math201" ]

\* the events a direct call of calculate_priority_score is given
ScoreEvents ==
    { Event(1, t, d, w, s) : t \in EventTypes, d \in DueTicks, w \in Weights, s \in Statuses }

\* the events a direct call of generate_recommendations is given (it reads type
\* and weight only)
RecommendEvents == { Event(1, t, 0, w, "pending") : t \in EventTypes, w \in Weights }

\* the events the store of Spec may hold: twelve pending ones and three that
\* are not pending; no mean of up to three of the weights is an exact tie at
\* the third decimal
Catalog ==
    { Event(0, t, d * TicksPerDay, w, "pending") :
        t \in {"exam", "assignment"}, d \in {2, 12}, w \in {500, 800, 3000} }
    \cup { Event(0, "exam", 2 * TicksPerDay, 3000, "completed"),
           Event(0, "assignment", 12 * TicksPerDay, 800, "in_progress"),
           Event(0, "exam", 2 * TicksPerDay, 500, "overdue") }

\* the events the store of SpecLoad may hold; no mix of its weights has a mean
\* that is an exact tie at the third decimal
LoadCatalog ==
    { Event(0, "exam", 2 * TicksPerDay, 3000, "pending"),
      Event(0, "homework", 7 * TicksPerDay, 1000, "pending"),
      Event(0, "project", 5 * TicksPerDay, 2500, "completed") }

\* the event with the keys its author supplies set to other values
Labelled(event, label) ==
    [event EXCEPT !.priority = label.priority,
                  !.estimated_hours = label.estimated_hours,
                  !.title = label.title,
                  !.course_id = label.course_id]

\* the events the store of SpecMix may hold: pending events due in a day and a
\* bit, in 3, in 7 and in 8 days and a bit, each under two sets of labels, and
\* a completed exam
MixCatalog ==
    { Labelled(e, l) :
        e \in { Event(0, "homework", TicksPerDay + 1, 500, "pending"),
                Event(0, "exam", 3 * TicksPerDay, 3000, "pending"),
                Event(0, "assignment", 7 * TicksPerDay, 800, "pending"),
                Event(0, "quiz", 8 * TicksPerDay + 1, 500, "pending") },
        l \in { [priority |-> "low", estimated_hours |-> 2, title |-> "Quiz 7",
                 course_id |-> "cs101"],
                [priority |-> "critical", estimated_hours |-> 12, title |-> "Midterm",
                 course_id |-> "math201"] } }
    \cup { Labelled(Event(0, "exam", 2 * TicksPerDay, 3000, "completed"),
                    [priority |-> "high", estimated_hours |-> 8, title |-> "Midterm",
                     course_id |-> "phys151"]) }

\* the events of SpecTie: weights 0.0525 and 0.1275 make the score of a project
\* or a quiz an exact tie at the third decimal, pending or not
TieEvents ==
    { Event(1, t, d * TicksPerDay, w, s) :
        t \in {"exam", "project", "assignment", "quiz"}, d \in {2, 13, 14, 15},
        w \in {525, 800, 1275}, s \in {"pending", "completed", "overdue"} }

\* the event without one of its keys, and with its due_date in another form
Without(event, key) == [k \in DOMAIN event \ {key} |-> event[k]]

Written(event, form) == [event EXCEPT !.due_date.form = form]

\* the events the store of SpecEdge may hold: well-formed pending events, due
\* ahead or overdue by whole and by broken days; pending events due at an
\* instant with a Z or an offset; pending events with a due_date that is no
\* date, or without one of the keys the engine reads; a completed event whose
\* due_date is no date
EdgeCatalog ==
    { Event(0, "exam", 2 * TicksPerDay, 3000, "pending"),
      Event(0, "assignment", 12 * TicksPerDay, 800, "pending") }
    \cup { Event(0, "assignment", at, 800, "pending") :
              at \in {-1, 0 - TicksPerDay, 0 - TicksPerDay - 1, 2 * TicksPerDay + 1} }
    \cup { Written(Event(0, "exam", 2 * TicksPerDay, 3000, "pending"), "Z"),
           Written(Event(0, "quiz", 5 * TicksPerDay, 800, "pending"), "offset"),
           Written(Event(0, "homework", 7 * TicksPerDay, 500, "pending"), "invalid"),
           Written(Event(0, "exam", 2 * TicksPerDay, 3000, "completed"), "invalid") }
    \cup { Without(Event(0, "exam", 2 * TicksPerDay, 500, "pending"), key) :
              key \in {"due_date", "weight", "type", "status"} }

----------------------------------------------------------------------------
(* The engine behind the Event Store: Spec, SpecLoad and SpecEdge *)

NoCalls ==
    /\ calls = << >>
    /\ heap = << >>

Idle ==
    /\ fn = "none"
    /\ arg_event = None
    /\ arg_now = 0
    /\ arg_total = 0
    /\ arg_days = 0
    /\ ret = << >>

Init ==
    /\ store = << >>
    /\ snapshot = << >>
    /\ fetched = << >>
    /\ result = None
    /\ NoCalls
    /\ Idle

\* The store gains an event; its id is its place in the list.  The store is
\* filled before the first request is served.
StoreAdd ==
    /\ result = None
    /\ Len(store) < MaxStore
    /\ \E e \in Catalog : store' = Append(store, [e EXCEPT !.id = Len(store) + 1])
    /\ UNCHANGED <<snapshot, fetched, result>>
    /\ UNCHANGED callVars
    /\ UNCHANGED concVars

StoreAddLoad ==
    /\ result = None
    /\ Len(store) < MaxLoad
    /\ \E e \in LoadCatalog : store' = Append(store, [e EXCEPT !.id = Len(store) + 1])
    /\ UNCHANGED <<snapshot, fetched, result>>
    /\ UNCHANGED callVars
    /\ UNCHANGED concVars

StoreAddEdge ==
    /\ result = None
    /\ Len(store) < MaxStore
    /\ \E e \in EdgeCatalog : store' = Append(store, [e EXCEPT !.id = Len(store) + 1])
    /\ UNCHANGED <<snapshot, fetched, result>>
    /\ UNCHANGED callVars
    /\ UNCHANGED concVars

StoreAddMix ==
    /\ result = None
    /\ Len(store) < MaxStore
    /\ \E e \in MixCatalog : store' = Append(store, [e EXCEPT !.id = Len(store) + 1])
    /\ UNCHANGED <<snapshot, fetched, result>>
    /\ UNCHANGED callVars
    /\ UNCHANGED concVars

\* GET /api/highest-weight-event: one call of analyze_highest_weight_event
Analyze ==
    /\ \E current_time \in Nows, user_id \in UserIds :
          /\ snapshot' = store
          /\ fetched' = EventsAfterCall(store, current_time)
          /\ result' = analyze_highest_weight_event(store, current_time, user_id)
    /\ UNCHANGED store
    /\ UNCHANGED callVars
    /\ UNCHANGED concVars

\* One more call, to which the store hands the very records it handed to the
\* call before: they carry the keys that call assigned.
AnalyzeAgain ==
    /\ result # None
    /\ \E current_time \in Nows, user_id \in UserIds :
          /\ snapshot' = fetched
          /\ fetched' = EventsAfterCall(fetched, current_time)
          /\ result' = analyze_highest_weight_event(fetched, current_time, user_id)
    /\ UNCHANGED store
    /\ UNCHANGED callVars
    /\ UNCHANGED concVars

Next == StoreAdd \/ Analyze

Spec == Init /\ [][Next]_vars

NextAgain == StoreAdd \/ Analyze \/ AnalyzeAgain

SpecAgain == Init /\ [][NextAgain]_vars

NextEdge == StoreAddEdge \/ Analyze

SpecEdge == Init /\ [][NextEdge]_vars

NextMix == StoreAddMix \/ Analyze

SpecMix == Init /\ [][NextMix]_vars

NextLoad == StoreAddLoad \/ Analyze

SpecLoad == Init /\ [][NextLoad]_vars

----------------------------------------------------------------------------
(* Analysis calls side by side, one statement at a time: SpecConc *)

Callers == 1 .. MaxConc

\* the events the store of SpecConc may hold
ConcCatalog ==
    { Event(0, "exam", 2 * TicksPerDay, 3000, "pending"),
      Event(0, "assignment", 2 * TicksPerDay, 800, "pending"),
      Event(0, "exam", 2 * TicksPerDay, 3000, "completed") }

HomeShared(c) == 1

\* where the list a call was handed lives: get_student_data builds the list
\* and its records anew on every call, so each call has a list of its own
Home(c) == c

\* the places of the pending events of the list, in order
PendingPlacesOf(events) ==
    SelectSeq([i \in 1..Len(events) |-> i], LAMBDA i : IsPending(events[i]))

\* a call that has not started
NewCall ==
    [ pc |-> "fetch", user_id |-> "", events |-> << >>, current_time |-> 0,
      pending_events |-> << >>, scored |-> 0, result |-> None ]

InitConc ==
    /\ store = << >>
    /\ snapshot = << >>
    /\ fetched = << >>
    /\ result = None
    /\ Idle
    /\ calls = [c \in Callers |-> NewCall]
    /\ heap = [c \in Callers |-> << >>]

\* the store is filled before the first call starts
StoreAddConc ==
    /\ \A c \in Callers : calls[c].pc = "fetch"
    /\ Len(store) < MaxStore
    /\ \E e \in ConcCatalog : store' = Append(store, [e EXCEPT !.id = Len(store) + 1])
    /\ UNCHANGED <<snapshot, fetched, result>>
    /\ UNCHANGED callVars
    /\ UNCHANGED concVars

\* student_data = AnalyticsData.get_student_data(user_id)
Fetch(c) ==
    /\ calls[c].pc = "fetch"
    /\ \E user_id \in UserIds :
          calls' = [calls EXCEPT ![c].pc = "clock", ![c].user_id = user_id,
                                 ![c].events = store]
    /\ heap' = [heap EXCEPT ![Home(c)] = store]
    /\ UNCHANGED engineVars
    /\ UNCHANGED callVars

\* current_time = datetime.datetime.now()
ReadClock(c) ==
    /\ calls[c].pc = "clock"
    /\ \E current_time \in Nows :
          calls' = [calls EXCEPT ![c].pc = "filter", ![c].current_time = current_time]
    /\ UNCHANGED heap
    /\ UNCHANGED engineVars
    /\ UNCHANGED callVars

\* pending_events = [...]; with none of them the call returns at once
Filter(c) ==
    /\ calls[c].pc = "filter"
    /\ LET pending_events == PendingPlacesOf(heap[Home(c)])
       IN  calls' = [calls EXCEPT
                        ![c].pending_events = pending_events,
                        ![c].pc = IF pending_events = << >> THEN "done" ELSE "score",
                        ![c].result = IF pending_events = << >>
                                      THEN EmptyResult(calls[c].current_time, calls[c].user_id)
                                      ELSE None]
    /\ UNCHANGED heap
    /\ UNCHANGED engineVars
    /\ UNCHANGED callVars

\* one pass of the loop: the two keys are assigned on the next pending record
ScoreNext(c) ==
    /\ calls[c].pc = "score"
    /\ calls[c].scored < Len(calls[c].pending_events)
    /\ LET place == calls[c].pending_events[calls[c].scored + 1]
       IN  heap' = [heap EXCEPT ![Home(c)][place] = ScoreEvent(@, calls[c].current_time)]
    /\ calls' = [calls EXCEPT ![c].scored = @ + 1]
    /\ UNCHANGED engineVars
    /\ UNCHANGED callVars

\* after the loop: the maximum, the analysis, the recommendations, the return;
\* e["priority_score"] of a record without the key raises KeyError
Select(c) ==
    /\ calls[c].pc = "score"
    /\ calls[c].scored = Len(calls[c].pending_events)
    /\ LET pending_events == [j \in 1..Len(calls[c].pending_events) |->
                                heap[Home(c)][calls[c].pending_events[j]]]
           unscored == \E j \in 1..Len(pending_events) :
                          {"priority_score", "days_until_due"} \ DOMAIN pending_events[j] # {}
       IN  calls' = [calls EXCEPT
                        ![c].pc = "done",
                        ![c].result = IF unscored THEN Raised("KeyError")
                                      ELSE SuccessResult(pending_events,
                                                         calls[c].current_time,
                                                         calls[c].user_id)]
    /\ UNCHANGED heap
    /\ UNCHANGED engineVars
    /\ UNCHANGED callVars

NextConc ==
    \/ StoreAddConc
    \/ \E c \in Callers : Fetch(c) \/ ReadClock(c) \/ Filter(c) \/ ScoreNext(c) \/ Select(c)

SpecConc == InitConc /\ [][NextConc]_vars

----------------------------------------------------------------------------
(* The engine behind the built-in data source: SpecBuiltin *)

StoreNows == 0 .. MaxNow
Delays == 0 .. MaxDelay
BuiltinUsers == {"student123", "student456"}

\* one of the sample events: due a number of days after now
Sample(id, title, course_id, type, days, now, weight, priority, estimated_hours) ==
    [ id |-> id, title |-> title, course_id |-> course_id, type |-> type,
      due_date |-> Iso(now + days * TicksPerDay, "naive"), weight |-> weight,
      status |-> "pending", priority |-> priority, estimated_hours |-> estimated_hours ]

\* student_data["events"] of the built-in data source, which read the clock at
\* now: the same six events for every user_id
get_student_data(user_id, now) ==
    << Sample("event1", "Final Programming Project", "cs101", "project", 5, now, 2500, "high", 20),
       Sample("event2", "Calculus Midterm Exam", "math201", "exam", 2, now, 3000, "critical", 8),
       Sample("event3", "Physics Lab Report #3", "phys151", "assignment", 1, now, 800, "medium", 4),
       Sample("event4", "Homework Assignment 7", "math201", "homework", 7, now, 500, "medium", 3),
       Sample("event5", "Algorithm Analysis Quiz", "cs101", "quiz", 10, now, 800, "medium", 2),
       Sample("event6", "Physics Final Exam", "phys151", "exam", 12, now, 3500, "high", 12) >>

\* GET /api/highest-weight-event?user_id=...: get_student_data reads the clock
\* and builds the list, then the engine reads the clock, at the same instant or
\* later, and analyses the list
ServeBuiltin ==
    /\ \E user_id \in BuiltinUsers, now \in StoreNows, delay \in Delays :
          LET events == get_student_data(user_id, now)
              current_time == now + delay
          IN  /\ store' = events
              /\ snapshot' = events
              /\ fetched' = EventsAfterCall(events, current_time)
              /\ result' = analyze_highest_weight_event(events, current_time, user_id)
    /\ UNCHANGED callVars
    /\ UNCHANGED concVars

NextBuiltin == ServeBuiltin

SpecBuiltin == Init /\ [][NextBuiltin]_vars

----------------------------------------------------------------------------
(* The engine behind an Event Store that may fail: SpecFetch *)

\* what a failing get_student_data may raise; KeyError is also what the engine
\* itself raises for a record without a key
StoreErrors == {"ConnectionError", "KeyError"}

\* a request that has not started; store_error is what the store raised,
\* fetches the number of calls of get_student_data the request has made
NewRequest ==
    [ pc |-> "fetch", user_id |-> "", fetches |-> 0, store_error |-> "none",
      current_time |-> 0, result |-> None ]

InitFetch ==
    /\ store = << >>
    /\ snapshot = << >>
    /\ fetched = << >>
    /\ result = None
    /\ Idle
    /\ calls = << NewRequest >>
    /\ heap = << << >> >>

\* the store is filled between requests
StoreAddFetch ==
    /\ calls[1].pc = "fetch"
    /\ Len(store) < MaxStore
    /\ \E e \in ConcCatalog : store' = Append(store, [e EXCEPT !.id = Len(store) + 1])
    /\ UNCHANGED <<snapshot, fetched, result>>
    /\ UNCHANGED callVars
    /\ UNCHANGED concVars

FetchStoreRetrying ==
    /\ calls[1].pc = "fetch"
    /\ \E user_id \in UserIds :
          \/ /\ calls' = [calls EXCEPT ![1].pc = "analyze", ![1].user_id = user_id,
                                        ![1].fetches = @ + 1]
             /\ heap' = << store >>
          \/ /\ \E error \in StoreErrors :
                   calls' = [calls EXCEPT
                                ![1].pc = IF calls[1].fetches = 0 THEN "fetch" ELSE "done",
                                ![1].user_id = user_id,
                                ![1].fetches = @ + 1,
                                ![1].store_error = error,
                                ![1].result = IF calls[1].fetches = 0 THEN None
                                              ELSE Raised(error)]
             /\ UNCHANGED heap
    /\ UNCHANGED engineVars
    /\ UNCHANGED callVars

\* user_id = query_params.get(...); student_data = get_student_data(user_id):
\* the store hands over its list, or raises, and what it raises leaves
\* analyze_highest_weight_event and do_GET, neither of which has a handler
FetchStore ==
    /\ calls[1].pc = "fetch"
    /\ \E user_id \in UserIds :
          \/ /\ calls' = [calls EXCEPT ![1].pc = "analyze", ![1].user_id = user_id,
                                        ![1].fetches = @ + 1]
             /\ heap' = << store >>
          \/ /\ \E error \in StoreErrors :
                   calls' = [calls EXCEPT ![1].pc = "done", ![1].user_id = user_id,
                                          ![1].fetches = @ + 1,
                                          ![1].store_error = error,
                                          ![1].result = Raised(error)]
             /\ UNCHANGED heap
    /\ UNCHANGED engineVars
    /\ UNCHANGED callVars

\* the rest of the call, from the clock read to the return, on the list the
\* store handed over
AnalyzeFetched ==
    /\ calls[1].pc = "analyze"
    /\ \E current_time \in Nows :
          /\ calls' = [calls EXCEPT
                          ![1].pc = "done",
                          ![1].current_time = current_time,
                          ![1].result = analyze_highest_weight_event(heap[1], current_time,
                                                                     calls[1].user_id)]
          /\ heap' = << EventsAfterCall(heap[1], current_time) >>
    /\ UNCHANGED engineVars
    /\ UNCHANGED callVars

\* the server takes the next request
NextRequest ==
    /\ calls[1].pc = "done"
    /\ calls' = << NewRequest >>
    /\ heap' = << << >> >>
    /\ UNCHANGED engineVars
    /\ UNCHANGED callVars

NextFetch == StoreAddFetch \/ FetchStore \/ AnalyzeFetched \/ NextRequest

SpecFetch == InitFetch /\ [][NextFetch]_vars

----------------------------------------------------------------------------
(* The engine's functions called directly: SpecFn *)

InitFn ==
    /\ store = << >>
    /\ snapshot = << >>
    /\ fetched = << >>
    /\ result = None
    /\ NoCalls
    /\ ret = << >>
    /\ \/ /\ fn = "calculate_priority_score"
          /\ arg_event \in ScoreEvents
          /\ arg_now \in Nows
          /\ arg_total = 0
          /\ arg_days = 0
       \/ /\ fn = "get_urgency_level"
          /\ arg_event = None
          /\ arg_now = 0
          /\ arg_total = 0
          /\ arg_days \in DayCounts
       \/ /\ fn = "generate_recommendations"
          /\ arg_event \in RecommendEvents
          /\ arg_now = 0
          /\ arg_total \in Totals
          /\ arg_days \in DayCounts

CallScore ==
    /\ fn = "calculate_priority_score"
    /\ ret = << >>
    /\ \E priority_score \in PriorityScores(arg_event, arg_now) : ret' = << priority_score >>
    /\ UNCHANGED <<fn, arg_event, arg_now, arg_total, arg_days>>
    /\ UNCHANGED engineVars
    /\ UNCHANGED concVars

CallUrgency ==
    /\ fn = "get_urgency_level"
    /\ ret = << >>
    /\ ret' = << get_urgency_level(arg_days) >>
    /\ UNCHANGED <<fn, arg_event, arg_now, arg_total, arg_days>>
    /\ UNCHANGED engineVars
    /\ UNCHANGED concVars

CallRecommend ==
    /\ fn = "generate_recommendations"
    /\ ret = << >>
    /\ ret' = << generate_recommendations(arg_event, arg_total, arg_days) >>
    /\ UNCHANGED <<fn, arg_event, arg_now, arg_total, arg_days>>
    /\ UNCHANGED engineVars
    /\ UNCHANGED concVars

\* calculate_priority_score called on events whose score may be a tie
InitTie ==
    /\ store = << >>
    /\ snapshot = << >>
    /\ fetched = << >>
    /\ result = None
    /\ NoCalls
    /\ ret = << >>
    /\ fn = "calculate_priority_score"
    /\ arg_event \in TieEvents
    /\ arg_now \in Nows
    /\ arg_total = 0
    /\ arg_days = 0

NextTie == CallScore

SpecTie == InitTie /\ [][NextTie]_vars

NextFn == CallScore \/ CallUrgency \/ CallRecommend

SpecFn == InitFn /\ [][NextFn]_vars

----------------------------------------------------------------------------
(* What the claims are stated over *)

\* an analysis call has returned
Returned == "success" \in DOMAIN result

\* the places of the pending events in the fetched list; an event's id is its place
PendingPlaces == { i \in 1..Len(snapshot) : snapshot[i].status = "pending" }

Selected == result.data.event

Report == result.data.analysis

\* a direct call of the function has returned
Called(f) == fn = f /\ ret # << >>

----------------------------------------------------------------------------
(* C1 *)

----------------------------------------------------------------------------
(* C2 *)

\* events that are not pending, to put into the fetched list in place of, or
\* beside, the ones it holds
NonPendingEvents ==
    { Event(0, "exam", 0, 3500, "completed"),
      Event(0, "homework", 12 * TicksPerDay, 3500, "in_progress"),
      Event(0, "exam", 0 - TicksPerDay, 3500, "overdue") }

RemoveAt(events, i) == SubSeq(events, 1, i - 1) \o SubSeq(events, i + 1, Len(events))

ReplaceAt(events, i, e) == [events EXCEPT ![i] = e]

InsertAt(events, i, e) == SubSeq(events, 1, i - 1) \o << e >> \o SubSeq(events, i, Len(events))

\* the call on this list at the same instant selects the same event and reports
\* the same pending count, average_weight, course_load and recommendations
SameOutcome(events) ==
    LET other == analyze_highest_weight_event(events, result.timestamp, result.user_id)
    IN  /\ other.data.event = Selected
        /\ other.data.analysis.total_pending_events = Report.total_pending_events
        /\ other.data.analysis.average_weight = Report.average_weight
        /\ other.data.analysis.course_load = Report.course_load
        /\ other.data.recommendations = result.data.recommendations

\* C2: only pending events take part.  The returned event is pending,
\* total_pending_events is the number of pending events, and the list with any
\* non-pending event removed, replaced by another non-pending event, or with a
\* non-pending event added at any place gives the same selected event,
\* average_weight, course_load and recommendations.
C2_OnlyPendingTakePart ==
    Returned =>
        /\ Report.total_pending_events = Cardinality(PendingPlaces)
        /\ Selected # None => Selected.status = "pending"
        /\ \A i \in (1..Len(snapshot)) \ PendingPlaces :
              /\ SameOutcome(RemoveAt(snapshot, i))
              /\ \A e \in NonPendingEvents : SameOutcome(ReplaceAt(snapshot, i, e))
        /\ \A i \in 1..(Len(snapshot) + 1) :
              \A e \in NonPendingEvents : SameOutcome(InsertAt(snapshot, i, e))

\* the list holds pending events and, before them, an event that is not pending
\* and weighs more than the one returned
C2_Witness ==
    /\ Returned
    /\ Selected # None
    /\ Report.total_pending_events < Len(snapshot)
    /\ snapshot[1].status # "pending"
    /\ snapshot[1].weight > Selected.weight

----------------------------------------------------------------------------
(* C3 *)

\* C3: when the fetched list holds no pending event, the call returns the
\* success result with no event, the zeroed analysis and the three fixed
\* recommendations, and attaches a score to no event of the list.
C3_NoPendingIsSuccess ==
    (Returned /\ PendingPlaces = {}) =>
        /\ result.success = TRUE
        /\ Selected = None
        /\ Report.total_pending_events = 0
        /\ Report.average_weight = 0
        /\ Report.days_to_due = 0
        /\ Report.urgency_level = "low"
        /\ Report.impact_score = 0
        /\ Report.course_load = "Light"
        /\ Len(result.data.recommendations) = 3
        /\ result.data.recommendations =
              << Str("Consider planning ahead for upcoming assignments", "", -1),
                 Str("Review your course syllabi for future deadlines", "", -1),
                 Str("Use this free time to get ahead on reading or projects", "", -1) >>
        /\ fetched = snapshot

\* a call returned for a list of events none of which is pending
C3_Witness ==
    /\ Returned
    /\ Len(snapshot) >= 2
    /\ PendingPlaces = {}
    /\ Selected = None

----------------------------------------------------------------------------
(* C4 *)

\* the multiplier of the claim, in tenths
C4_TypeFactor(type) ==
    IF type = "exam" THEN 12
    ELSE IF type = "project" THEN 11
    ELSE IF type = "assignment" THEN 10
    ELSE IF type = "quiz" THEN 9
    ELSE IF type = "homework" THEN 8
    ELSE 10

\* (weight*100 + max(0, 14 - days_until_due)*5) * type_factor + status_penalty,
\* in 1/10000
C4_Unrounded(event, current_time) ==
    LET days == DaysUntilDue(event.due_date, current_time)
        late == IF 14 - days > 0 THEN 14 - days ELSE 0
        penalty == IF event.status = "pending" THEN 0 ELSE -50
    IN  (event.weight * 10 + late * 5 * 1000) * C4_TypeFactor(event.type) + penalty * 10000

\* C4: calculate_priority_score returns
\* (weight*100 + max(0, 14 - days_until_due)*5) * type_factor + status_penalty
\* rounded to 2 decimals (the hundredth nearest to it), with type_factor 1.2,
\* 1.1, 1.0, 0.9, 0.8 for exam, project, assignment, quiz, homework and 1.0 for
\* any other type; a pending exam of weight 0.30 due in 2 days scores 108.00.
C4_ScoreFormula ==
    Called("calculate_priority_score") =>
        LET exact == C4_Unrounded(arg_event, arg_now)
            diff == ret[1] * 100 - exact
        IN  /\ -50 <= diff /\ diff <= 50
            /\ ( /\ arg_event.type = "exam"
                 /\ arg_event.weight = 3000
                 /\ arg_event.status = "pending"
                 /\ DaysUntilDue(arg_event.due_date, arg_now) = 2 ) => ret[1] = 10800

\* the pending exam of weight 0.30 due in 2 days has been scored 108.00
C4_Witness ==
    /\ Called("calculate_priority_score")
    /\ arg_event.type = "exam"
    /\ arg_event.weight = 3000
    /\ arg_event.status = "pending"
    /\ DaysUntilDue(arg_event.due_date, arg_now) = 2
    /\ ret[1] = 10800

----------------------------------------------------------------------------
(* C5 *)

\* C5: get_urgency_level returns exactly one of the four labels: critical for
\* days_until_due <= 1 (zero and negative values included), high for 2 and 3,
\* moderate for 4 to 7, low for 8 and more.
C5_UrgencyLabels ==
    Called("get_urgency_level") =>
        /\ ret[1] \in {"critical", "high", "moderate", "low"}
        /\ ret[1] = "critical" <=> arg_days <= 1
        /\ ret[1] = "high" <=> arg_days \in 2..3
        /\ ret[1] = "moderate" <=> arg_days \in 4..7
        /\ ret[1] = "low" <=> arg_days >= 8

\* a negative day count has been classified critical
C5_Witness ==
    /\ Called("get_urgency_level")
    /\ arg_days < 0
    /\ ret[1] = "critical"

----------------------------------------------------------------------------
(* C6, C7 *)

TimeTemplates ==
    { "URGENT: This {} is due within 24 hours!",
      "Focus solely on this task and complete it as soon as possible",
      "Priority: This {} is due very soon",
      "Allocate significant time today to work on this",
      "Plan ahead: Start working on this {} soon" }

WeightTemplates ==
    { "High Impact: This task represents {}% of your grade",
      "Consider dedicating extra study time given its importance",
      "Moderate Impact: Worth {}% of your final grade" }

WorkloadTemplates ==
    { "Heavy workload detected - prioritize by due date and weight",
      "Break down large tasks into smaller, manageable chunks" }

TypeTemplates ==
    { "Create a study schedule leading up to the exam",
      "Review past materials and practice problems",
      "Break this project into phases with mini-deadlines",
      "Start with research and planning phases",
      "Begin with an outline or initial draft" }

\* the rule group a recommendation string belongs to: 1 time, 2 weight,
\* 3 workload, 4 type, 0 none of them
GroupOf(str) ==
    IF str.template \in TimeTemplates THEN 1
    ELSE IF str.template \in WeightTemplates THEN 2
    ELSE IF str.template \in WorkloadTemplates THEN 3
    ELSE IF str.template \in TypeTemplates THEN 4
    ELSE 0

\* how many strings of the group the sequence holds
CountOf(recommendations, group) ==
    Cardinality({ i \in 1..Len(recommendations) : GroupOf(recommendations[i]) = group })

\* C6: the sequence generate_recommendations returns holds strings of the four
\* groups only, the time-based ones first, then the weight-based, then the
\* workload, then the type-specific ones: no string of a later group comes
\* before a string of an earlier group.
C6_GroupOrder ==
    Called("generate_recommendations") =>
        LET r == ret[1]
        IN  /\ \A i \in 1..Len(r) : GroupOf(r[i]) \in 1..4
            /\ \A i, j \in 1..Len(r) : i < j => GroupOf(r[i]) <= GroupOf(r[j])

\* all four groups fired: eight strings, two of each group in turn (the exam of
\* weight 0.35 due today in a pool of ten)
C6_Witness ==
    /\ Called("generate_recommendations")
    /\ arg_event.type = "exam"
    /\ arg_event.weight = 3500
    /\ arg_days = 0
    /\ arg_total = 10
    /\ Len(ret[1]) = 8
    /\ [i \in 1..8 |-> GroupOf(ret[1][i])] = <<1, 1, 2, 2, 3, 3, 4, 4>>

\* C7: generate_recommendations emits per group a number of strings fixed by
\* that group's trigger alone: time 2 for days_until_due <= 1 and for 2..3, 1 for
\* 4..7, 0 from 8 on; weight 2 for weight >= 0.30, 1 for 0.15 <= weight < 0.30,
\* else 0; workload 2 for total_pending >= 8, else 0; type 2 for exam and for
\* project, 1 for assignment, 0 for any other type.  The length is the sum of
\* the four numbers, between 0 and 8.
C7_GroupCounts ==
    Called("generate_recommendations") =>
        LET r == ret[1]
            time == IF arg_days <= 3 THEN 2 ELSE IF arg_days <= 7 THEN 1 ELSE 0
            weight == IF arg_event.weight >= 3000 THEN 2
                      ELSE IF arg_event.weight >= 1500 THEN 1 ELSE 0
            workload == IF arg_total >= 8 THEN 2 ELSE 0
            type == IF arg_event.type \in {"exam", "project"} THEN 2
                    ELSE IF arg_event.type = "assignment" THEN 1 ELSE 0
        IN  /\ CountOf(r, 1) = time
            /\ CountOf(r, 2) = weight
            /\ CountOf(r, 3) = workload
            /\ CountOf(r, 4) = type
            /\ Len(r) = time + weight + workload + type
            /\ Len(r) \in 0..8

\* exactly eight pending events, a weight just under 0.30 and a day count of 7:
\* one time string, one weight string, two workload strings, none for the type
C7_Witness ==
    /\ Called("generate_recommendations")
    /\ arg_total = 8
    /\ arg_event.weight = 2999
    /\ arg_days = 7
    /\ arg_event.type = "quiz"
    /\ Len(ret[1]) = 4
    /\ CountOf(ret[1], 3) = 2

----------------------------------------------------------------------------
(* C8 *)

\* C8: in a result with a selected event, urgency_level is get_urgency_level of
\* the selected event's days_until_due, days_to_due is that days_until_due,
\* impact_score is the selected event's priority_score, and the recommendations
\* are those generated for the selected event and the pending count.
C8_DerivedFromSelected ==
    (Returned /\ PendingPlaces # {}) =>
        /\ Report.urgency_level = get_urgency_level(Selected.days_until_due)
        /\ Report.days_to_due = Selected.days_until_due
        /\ Report.impact_score = Selected.priority_score
        /\ result.data.recommendations =
              generate_recommendations(Selected, Cardinality(PendingPlaces),
                                       Selected.days_until_due)

\* the selected event is not the first pending one, and the first pending one
\* has another day count, urgency, score and type
C8_Witness ==
    /\ Returned
    /\ PendingPlaces # {}
    /\ \E i \in PendingPlaces :
          /\ i < Selected.id
          /\ fetched[i].days_until_due # Report.days_to_due
          /\ get_urgency_level(fetched[i].days_until_due) # Report.urgency_level
          /\ fetched[i].priority_score # Report.impact_score
          /\ fetched[i].type # Selected.type

----------------------------------------------------------------------------
(* C9 *)

\* C9: course_load is Heavy when 8 or more events are pending, Moderate when 5,
\* 6 or 7 are, Light when 0 to 4 are.
C9_CourseLoadByPendingCount ==
    Returned =>
        LET n == Cardinality(PendingPlaces)
        IN  /\ Report.course_load \in {"Heavy", "Moderate", "Light"}
            /\ Report.course_load = "Heavy" <=> n >= 8
            /\ Report.course_load = "Moderate" <=> n \in 5..7
            /\ Report.course_load = "Light" <=> n \in 0..4

\* exactly eight of the nine fetched events are pending and the load is Heavy
C9_Witness ==
    /\ Returned
    /\ Len(snapshot) = 9
    /\ Cardinality(PendingPlaces) = 8
    /\ Report.course_load = "Heavy"

----------------------------------------------------------------------------
(* C10 *)

RECURSIVE WeightOfPlaces(_)
\* the sum of the weights of the fetched events at these places
WeightOfPlaces(places) ==
    IF places = {} THEN 0
    ELSE LET i == CHOOSE p \in places : TRUE
         IN  snapshot[i].weight + WeightOfPlaces(places \ {i})

\* C10: average_weight is the mean of the weights of the pending events, the
\* selected one included and the others left out, rounded to 3 decimals (the
\* thousandth nearest to it); for pending weights 0.30, 0.08, 0.05 it is 0.143.
C10_AverageOfPendingWeights ==
    (Returned /\ PendingPlaces # {}) =>
        LET n == Cardinality(PendingPlaces)
            total == WeightOfPlaces(PendingPlaces)
            diff == Report.average_weight * 10 * n - total
        IN  /\ -5 * n <= diff /\ diff <= 5 * n
            /\ ( /\ n = 3
                 /\ { snapshot[i].weight : i \in PendingPlaces } = {3000, 800, 500} )
               => Report.average_weight = 143

\* the pending weights are 0.30, 0.08 and 0.05 and the average is 0.143
C10_Witness ==
    /\ Returned
    /\ Cardinality(PendingPlaces) = 3
    /\ { snapshot[i].weight : i \in PendingPlaces } = {3000, 800, 500}
    /\ Report.average_weight = 143

----------------------------------------------------------------------------
(* C11 *)

\* C11: a call made after another call over the same store and at the same
\* instant returns the result the call before returned, whether the store hands
\* it fresh records or the very records the call before processed, which carry
\* priority_score and days_until_due already.
C11_SecondCallSameResult ==
    [][ ( /\ "success" \in DOMAIN result
          /\ "success" \in DOMAIN result'
          /\ result'.timestamp = result.timestamp )
        => result' = result ]_vars

\* the last call was handed records that carried a priority_score; it scored
\* two pending events and returned one of them
C11_Witness ==
    /\ "success" \in DOMAIN result
    /\ Len(snapshot) >= 2
    /\ \E i, j \in 1..Len(snapshot) :
          /\ i # j
          /\ "priority_score" \in DOMAIN snapshot[i]
          /\ "priority_score" \in DOMAIN snapshot[j]
          /\ snapshot[i].priority_score # snapshot[j].priority_score
    /\ result.data.event # None

----------------------------------------------------------------------------
(* C12 *)

\* the event with another due instant, or another weight
DueAt(event, at) == [event EXCEPT !.due_date = Iso(at, "naive")]

Weighing(event, weight) == [event EXCEPT !.weight = weight]

\* C12: of two events equal in weight, type and status the one with the smaller
\* days_until_due never has the lower score, and of two events equal in
\* days_until_due, type and status the one with the larger weight never has the
\* lower score.
C12_ScoreMonotone ==
    Called("calculate_priority_score") =>
        /\ \A at \in DueTicks :
              DaysUntilDue(Iso(at, "naive"), arg_now)
                    < DaysUntilDue(arg_event.due_date, arg_now)
              => calculate_priority_score(DueAt(arg_event, at), arg_now) >= ret[1]
        /\ \A w \in Weights :
              w > arg_event.weight
              => calculate_priority_score(Weighing(arg_event, w), arg_now) >= ret[1]

\* the scored event is due in 5 days and weighs 0.08; the same event due in 2
\* days scores strictly more, and so does the same event weighing 0.35
C12_Witness ==
    /\ Called("calculate_priority_score")
    /\ DaysUntilDue(arg_event.due_date, arg_now) = 5
    /\ arg_event.weight = 800
    /\ calculate_priority_score(DueAt(arg_event, 2 * TicksPerDay + arg_now), arg_now) > ret[1]
    /\ calculate_priority_score(Weighing(arg_event, 3500), arg_now) > ret[1]

----------------------------------------------------------------------------
(* C13 *)

\* C13: the returned event is the pending event with the highest weight: no
\* pending event of the fetched list weighs strictly more than it.
C13_HighestWeightReturned ==
    (Returned /\ PendingPlaces # {}) =>
        \A i \in PendingPlaces : snapshot[i].weight <= Selected.weight

----------------------------------------------------------------------------
(* C14 *)

CallEnded == result # None

\* the event is one the engine cannot score for want of a key or of a date:
\* a pending event without due_date, weight or type or with a due_date that is
\* no date, or an event whose status is missing
Malformed(e) ==
    \/ "status" \notin DOMAIN e
    \/ /\ e.status = "pending"
       /\ \/ {"due_date", "weight", "type"} \ DOMAIN e # {}
          \/ e.due_date.form = "invalid"

\* C14: when a pending event of the fetched list has an unparseable due date or
\* lacks a required key, wherever it sits, the call raises and returns no
\* result.
C14_MalformedFailsCall ==
    (CallEnded /\ \E i \in 1..Len(snapshot) : Malformed(snapshot[i]))
        => ("raised" \in DOMAIN result /\ ~Returned)

\* the malformed event is the last of three, after two well-formed pending
\* events of which the first was already scored when the call raised
C14_Witness ==
    /\ CallEnded
    /\ Len(snapshot) = 3
    /\ Malformed(snapshot[3])
    /\ "status" \in DOMAIN snapshot[3]
    /\ \A i \in {1, 2} : ~Malformed(snapshot[i]) /\ snapshot[i].status = "pending"
                            /\ snapshot[i].due_date.form = "naive"
    /\ "priority_score" \in DOMAIN fetched[1]
    /\ "raised" \in DOMAIN result

----------------------------------------------------------------------------
(* C15 *)

\* the event has every key the engine reads and a due_date that is a date
WellFormed(e) ==
    /\ {"due_date", "weight", "type", "status"} \subseteq DOMAIN e
    /\ e.due_date.form \in {"naive", "Z", "offset"}

\* C15: a pending event whose due instant is written with a Z or an offset is
\* accepted: when every event of the list is well-formed, the call returns a
\* result and every pending event has its priority_score and days_until_due.
C15_ZonedDueAccepted ==
    ( /\ CallEnded
      /\ \A i \in 1..Len(snapshot) : WellFormed(snapshot[i])
      /\ \E i \in 1..Len(snapshot) :
            snapshot[i].status = "pending" /\ snapshot[i].due_date.form \in {"Z", "offset"} )
    => /\ Returned
       /\ \A i \in 1..Len(snapshot) :
             snapshot[i].status = "pending"
             => {"priority_score", "days_until_due"} \subseteq DOMAIN fetched[i]

----------------------------------------------------------------------------
(* C16 *)

\* C16: after the call every record of the fetched list has exactly the keys
\* and values it had when fetched.
C16_FetchedRecordsUntouched ==
    CallEnded => \A i \in 1..Len(snapshot) : fetched[i] = snapshot[i]

----------------------------------------------------------------------------
(* C17 *)

\* the places of the events the returned call scored, and the ticks from the
\* instant the call read to the event's due instant
ScoredPlaces ==
    IF Returned THEN { i \in 1..Len(fetched) : fetched[i].status = "pending" } ELSE {}

TicksToDue(i) == fetched[i].due_date.at - result.timestamp

\* C17 as claimed: days_until_due is the difference in whole days truncated
\* toward zero, so an event overdue by less than one day gets 0 and one
\* overdue by between k and k+1 days gets -k.
C17_TruncatedTowardZero ==
    \A i \in ScoredPlaces :
        LET d == fetched[i].days_until_due
        IN  IF TicksToDue(i) >= 0
            THEN d * TicksPerDay <= TicksToDue(i) /\ TicksToDue(i) < (d + 1) * TicksPerDay
            ELSE (d - 1) * TicksPerDay < TicksToDue(i) /\ TicksToDue(i) <= d * TicksPerDay

\* C17 amended: days_until_due is the difference in whole days rounded down:
\* the largest d with d days <= due - now, so an event overdue by at most one
\* day gets -1 and one overdue by more than k and at most k+1 days gets -(k+1).
C17_RoundedDown ==
    \A i \in ScoredPlaces :
        LET d == fetched[i].days_until_due
        IN  /\ d * TicksPerDay <= TicksToDue(i)
            /\ TicksToDue(i) < (d + 1) * TicksPerDay

\* one scored event is overdue by less than a day and has -1, another is
\* overdue by more than one day and less than two and has -2
C17_Witness ==
    \E i, j \in ScoredPlaces :
        /\ 0 - TicksPerDay < TicksToDue(i) /\ TicksToDue(i) < 0
        /\ fetched[i].days_until_due = -1
        /\ 0 - 2 * TicksPerDay < TicksToDue(j) /\ TicksToDue(j) < 0 - TicksPerDay
        /\ fetched[j].days_until_due = -2

----------------------------------------------------------------------------------------------------------------------------------------------------------------------------------------------------------------------------------------------------------------
(* C18 *)

\* C18: whatever the interleaving, a call that has returned returned what a
\* call alone returns for the list it fetched and the instant it read, and the
\* list it was handed carries its own assignments and no other call's.
C18_CallsIndependent ==
    \A c \in DOMAIN calls :
        calls[c].pc = "done" =>
            /\ calls[c].result =
                  analyze_highest_weight_event(calls[c].events, calls[c].current_time,
                                               calls[c].user_id)
            /\ heap[c] = EventsAfterCall(calls[c].events, calls[c].current_time)

\* two calls have returned results for two pending events or more; they read
\* different instants and report different days_to_due
C18_Witness ==
    /\ DOMAIN calls = Callers
    /\ \E c, d \in Callers :
          /\ calls[c].pc = "done" /\ calls[d].pc = "done"
          /\ calls[c].current_time # calls[d].current_time
          /\ Len(calls[c].pending_events) >= 2
          /\ "success" \in DOMAIN calls[c].result
          /\ "success" \in DOMAIN calls[d].result
          /\ calls[c].result.data.analysis.days_to_due
                # calls[d].result.data.analysis.days_to_due

----------------
(* C19 *)

\* other values of the keys the author supplies: priority, estimated_hours,
\* title and course_id
Labels ==
    { [priority |-> "critical", estimated_hours |-> 20, title |-> "Midterm",
       course_id |-> "math201"],
      [priority |-> "low", estimated_hours |-> 4, title |-> "Final Exam",
       course_id |-> "cs101"],
      [priority |-> "high", estimated_hours |-> 1, title |-> "Quiz 7",
       course_id |-> "phys151"] }

\* the fetched list with other labels on the event at place i, or on all of
\* them (i = 0)
LabelledAt(events, i, label) ==
    [j \in 1..Len(events) |->
        IF i = 0 \/ i = j THEN Labelled(events[j], label) ELSE events[j]]

\* C19: the labels do not count: a list that differs from the fetched one only
\* in priority, estimated_hours, title or course_id of its events gives the
\* same priority scores, the same selected id, the same analysis and the same
\* recommendations.
C19_LabelsDoNotCount ==
    Returned =>
        \A i \in 0..Len(snapshot), label \in Labels :
            LET other == LabelledAt(snapshot, i, label)
                after == EventsAfterCall(other, result.timestamp)
                again == analyze_highest_weight_event(other, result.timestamp,
                                                      result.user_id)
            IN  /\ \A j \in PendingPlaces :
                      after[j].priority_score = fetched[j].priority_score
                /\ (Selected = None) = (again.data.event = None)
                /\ Selected # None => again.data.event.id = Selected.id
                /\ again.data.analysis = Report
                /\ again.data.recommendations = result.data.recommendations

\* a call returned the second of three pending events, labelled low, although
\* the first is labelled critical; with the label critical on the third the
\* same event is selected
C19_Witness ==
    /\ Returned
    /\ Cardinality(PendingPlaces) = 3
    /\ Selected # None
    /\ Selected.id = 2
    /\ Selected.priority = "low"
    /\ snapshot[1].priority = "critical"
    /\ fetched[3].priority_score < Selected.priority_score
    /\ analyze_highest_weight_event(LabelledAt(snapshot, 3, CHOOSE l \in Labels :
                                                   l.priority = "critical"),
                                    result.timestamp, result.user_id).data.event.id = 2

----------------
(* C20 *)

\* the event with the status pending, all else equal
AsPending(event) == [event EXCEPT !.status = "pending"]

\* (weight*100 + max(0, 14 - days_until_due)*5) * type_factor, in 1/10000
C20_Base(event, current_time) ==
    LET days == DaysUntilDue(event.due_date, current_time)
        late == IF 14 - days > 0 THEN 14 - days ELSE 0
    IN  (event.weight * 10 + late * 5 * 1000) * C4_TypeFactor(event.type)

\* the score of the event is an exact tie between two hundredths
C20_Tie(event, current_time) == C20_Base(event, current_time) % 100 = 50

\* C20 as claimed: calculate_priority_score returns a score for an event that
\* is not pending, exactly 50 less than what it returns for the same event with
\* the status pending; the score of a pending event carries no penalty.
C20_NonPendingFiftyLess ==
    Called("calculate_priority_score") =>
        /\ arg_event.status # "pending"
              => \A pending \in PriorityScores(AsPending(arg_event), arg_now) :
                    ret[1] = pending - 5000
        /\ arg_event.status = "pending"
              => LET diff == ret[1] * 100 - C20_Base(arg_event, arg_now)
                 IN  -50 <= diff /\ diff <= 50

\* C20 amended: the 50 is taken off before the score is rounded.  The score
\* returned for an event that is not pending is the rounding of a score 50
\* less; it is exactly 50 less than the score returned for the same event
\* pending unless that score is a tie between two hundredths, and then 49.99,
\* 50.00 or 50.01 less; the score of a pending event carries no penalty.
C20_FiftyLessBeforeRounding ==
    Called("calculate_priority_score") =>
        /\ arg_event.status # "pending"
              => /\ LET diff == ret[1] * 100 - (C20_Base(arg_event, arg_now) - 500000)
                    IN  -50 <= diff /\ diff <= 50
                 /\ \A pending \in PriorityScores(AsPending(arg_event), arg_now) :
                       /\ pending - 5001 <= ret[1] /\ ret[1] <= pending - 4999
                       /\ ~C20_Tie(arg_event, arg_now) => ret[1] = pending - 5000
        /\ arg_event.status = "pending"
              => LET diff == ret[1] * 100 - C20_Base(arg_event, arg_now)
                 IN  -50 <= diff /\ diff <= 50

\* a completed project of weight 0.0525 due in 13 days has been scored -38.73,
\* while 11.28 is a score of the same project pending: 50.01 less
C20_Witness ==
    /\ Called("calculate_priority_score")
    /\ arg_event.status = "completed"
    /\ arg_event.type = "project"
    /\ arg_event.weight = 525
    /\ DaysUntilDue(arg_event.due_date, arg_now) = 13
    /\ ret[1] = -3873
    /\ 1128 \in PriorityScores(AsPending(arg_event), arg_now)

----------------------------------------------------------------------------
(* C22 *)

\* the event due a day earlier
DayCloser(event) == DueAt(event, event.due_date.at - TicksPerDay)

\* C22: the deadline term is 0 from 14 days on, so there the score is that of
\* weight, type and status alone whatever the due date; below 14 days a day
\* closer adds 5 times the type factor to the score, for overdue events too, so
\* of two events equal in weight, type and status the one with the lower
\* negative days_until_due scores strictly higher.
C22_DeadlineTerm ==
    Called("calculate_priority_score") =>
        LET days == DaysUntilDue(arg_event.due_date, arg_now)
            flat == arg_event.weight * 10 * C4_TypeFactor(arg_event.type)
                        + (IF arg_event.status = "pending" THEN 0 ELSE -50) * 10000
        IN  /\ days >= 14 =>
                  /\ ret[1] * 100 - flat >= -50 /\ ret[1] * 100 - flat <= 50
                  /\ \A at \in DueTicks :
                        DaysUntilDue(Iso(at, "naive"), arg_now) >= 14
                        => calculate_priority_score(DueAt(arg_event, at), arg_now) = ret[1]
            /\ days <= 14 =>
                  calculate_priority_score(DayCloser(arg_event), arg_now)
                      = ret[1] + 50 * C4_TypeFactor(arg_event.type)
            /\ \A at \in DueTicks :
                  ( /\ DaysUntilDue(Iso(at, "naive"), arg_now) < days
                    /\ DaysUntilDue(Iso(at, "naive"), arg_now) < 0 )
                  => calculate_priority_score(DueAt(arg_event, at), arg_now) > ret[1]

\* a pending exam of weight 0.30 overdue by two days has been scored
\* (30 + 16*5) * 1.2 = 132.00, 6.00 more than the same exam overdue by one day
C22_Witness ==
    /\ Called("calculate_priority_score")
    /\ arg_event.type = "exam"
    /\ arg_event.weight = 3000
    /\ arg_event.status = "pending"
    /\ DaysUntilDue(arg_event.due_date, arg_now) = -2
    /\ ret[1] = 13200
    /\ calculate_priority_score(DueAt(arg_event, arg_event.due_date.at + TicksPerDay),
                                arg_now) = 12600

----------------------------------------------------------------------------
(* C25 *)

\* C25: in a result with a selected event the urgency label and the time-based
\* recommendations agree: the label is critical or high exactly when the list
\* starts with two time-based strings, moderate exactly when it starts with the
\* only one it holds, and low exactly when it holds none.
C25_UrgencyMatchesTimeAdvice ==
    (Returned /\ Selected # None) =>
        LET r == result.data.recommendations
            urgency_level == Report.urgency_level
        IN  /\ urgency_level \in {"critical", "high"}
                  <=> (Len(r) >= 2 /\ GroupOf(r[1]) = 1 /\ GroupOf(r[2]) = 1)
            /\ urgency_level = "moderate"
                  <=> (Len(r) >= 1 /\ GroupOf(r[1]) = 1 /\ CountOf(r, 1) = 1)
            /\ urgency_level = "low" <=> CountOf(r, 1) = 0

\* the selected event is due in exactly 7 days: the label is moderate and the
\* list starts with its one time-based string
C25_Witness ==
    /\ Returned
    /\ Selected # None
    /\ Selected.days_until_due = 7
    /\ Report.urgency_level = "moderate"
    /\ CountOf(result.data.recommendations, 1) = 1
    /\ GroupOf(result.data.recommendations[1]) = 1

----------------------------------------------------------------------------
(* C26 *)

\* the heavy-workload strings of the sequence, as a set of templates
HeavyStrings(recommendations) ==
    { recommendations[i].template : i \in 1..Len(recommendations) } \cap WorkloadTemplates

\* C26: in a result with a selected event analysis.course_load is Heavy if and
\* only if both heavy-workload strings are among the recommendations; a Moderate
\* or Light load comes with neither of them, and no result holds just one.
C26_HeavyLoadMatchesWorkloadAdvice ==
    (Returned /\ Selected # None) =>
        LET r == result.data.recommendations
        IN  /\ Report.course_load = "Heavy" <=> HeavyStrings(r) = WorkloadTemplates
            /\ Report.course_load \in {"Moderate", "Light"} <=> HeavyStrings(r) = {}
            /\ CountOf(r, 3) \in {0, 2}

\* exactly eight pending events: the load is Heavy and both strings are there
C26_Witness ==
    /\ Returned
    /\ Selected # None
    /\ Report.total_pending_events = HeavyLoad
    /\ Report.course_load = "Heavy"
    /\ CountOf(result.data.recommendations, 3) = 2

\* seven pending events: a Moderate load without heavy-workload advice
C26_WitnessModerate ==
    /\ Returned
    /\ Selected # None
    /\ Report.total_pending_events = HeavyLoad - 1
    /\ Report.course_load = "Moderate"
    /\ CountOf(result.data.recommendations, 3) = 0

----------------------------------------------------------------------------
(* C23 *)

\* (weight*100 + max(0, 14 - days)*5) * type_factor + status_penalty for a
\* given number of days, in 1/10000
C23_ScoreOfDays(event, days) ==
    LET late == IF 14 - days > 0 THEN 14 - days ELSE 0
        penalty == IF event.status = "pending" THEN 0 ELSE -50
    IN  (event.weight * 10 + late * 5 * 1000) * C4_TypeFactor(event.type) + penalty * 10000

\* C23: after a call that returned, every pending event carries the
\* priority_score that the score formula gives for the days_until_due it
\* carries, and that days_until_due is the number of whole days, rounded down,
\* from the instant of the result's timestamp to the event's due date.
C23_ScoreAndDaysAgree ==
    \A i \in ScoredPlaces :
        LET e == fetched[i]
        IN  /\ {"priority_score", "days_until_due"} \subseteq DOMAIN e
            /\ e.priority_score \in Rounded(C23_ScoreOfDays(e, e.days_until_due), 100)
            /\ e.days_until_due * TicksPerDay <= TicksToDue(i)
            /\ TicksToDue(i) < (e.days_until_due + 1) * TicksPerDay

\* a call returned at instant 1 with an event due two whole days after instant
\* 0: a day and a bit remain, the event carries 1 day and the score of 1 day
C23_Witness ==
    /\ Returned
    /\ result.timestamp = 1
    /\ \E i \in ScoredPlaces :
          /\ fetched[i].type = "exam"
          /\ TicksToDue(i) = 2 * TicksPerDay - 1
          /\ fetched[i].days_until_due = 1
          /\ fetched[i].priority_score = 11400

----------------------------------------------------------------------------
(* C24 *)

\* the instant at which the data source read the clock: its first event is due
\* five days later
StoreClock == snapshot[1].due_date.at - 5 * TicksPerDay

C24_WitnessCoincide ==
    /\ Returned
    /\ result.timestamp = StoreClock
    /\ Selected.id = "event2"
    /\ Selected.days_until_due = 2
    /\ Selected.priority_score = 10800
    /\ Report.urgency_level = "high"

----------------------------------------------------------------------------
(* C21 *)

\* C21: a request calls get_student_data once and never again: at most once
\* at any point, exactly once from the moment the call is past its first
\* statement; and when that call raised, the request has ended with the very
\* exception the store raised and with no result, without analysing anything.
C21_OneFetchNoRetry ==
    LET call == calls[1]
    IN  /\ call.fetches <= 1
        /\ call.pc \in {"analyze", "done"} => call.fetches = 1
        /\ call.store_error # "none" =>
              /\ call.pc = "done"
              /\ call.result = Raised(call.store_error)
              /\ "success" \notin DOMAIN call.result
              /\ heap = << << >> >>
        /\ (call.pc = "done" /\ call.store_error = "none") =>
              call.result = analyze_highest_weight_event(store, call.current_time, call.user_id)

\* the store holds a pending event and raised ConnectionError: the request
\* ended with ConnectionError after one fetch
C21_Witness ==
    /\ Len(calls) = 1
    /\ \E i \in 1..Len(store) : store[i].status = "pending"
    /\ calls[1].pc = "done"
    /\ calls[1].fetches = 1
    /\ calls[1].store_error = "ConnectionError"
    /\ calls[1].result = Raised("ConnectionError")

====
